---------------------------- MODULE Spec2Model ----------------------------
(***************************************************************************)
(* Character-level LSTM language model (LanguageModel.ipynb).              *)
(*                                                                         *)
(* The notebook is modelled component by component:                        *)
(*   SpecCodec    tokenize / int_to_char            (cell 2)               *)
(*   SpecSampler  Alice.__getitem__ / __len__       (cell 3)               *)
(*   SpecNet      MyRNN.forward, called by anyone   (cell 4)               *)
(*   SpecTrain    the training loop                 (cell 5)               *)
(*   SpecGen      the generation loop               (cell 6)               *)
(*                                                                         *)
(* Text is a sequence of characters, a character is a string.  Tensors of  *)
(* token indices are sequences of integers.  The numeric content of the    *)
(* LSTM is abstracted: a recurrent state is the sequence of tokens the     *)
(* layer has consumed since the all-zero state (one such sequence per      *)
(* batch element), which keeps exactly the information flow of the code.   *)
(***************************************************************************)
EXTENDS Integers, Sequences, FiniteSets, TLC

VARIABLES
    \* ---- codec (cell 2)
    text,           \* argument of tokenize
    toks,           \* tokenize(text)
    decoded,        \* int_to_char applied to every token of toks
    retoks,         \* tokenize(decoded)
    cpc,            \* position of the codec round trip
    \* ---- dataset (cell 3)
    idx,            \* Alice.idx
    size,           \* Alice.size
    res,            \* outcome of the last lookup made on the dataset / int_to_char
    \* ---- network (cell 4)
    hiddens,        \* MyRNN.hiddens: [set, h]; set = FALSE before the attribute exists
    w,              \* the parameters of the network (abstract value)
    training,       \* nn.Module.training: TRUE after net.train(), FALSE after net.eval()
    call,           \* the last call of MyRNN.forward: arguments, initial state, outcome
    ncalls,         \* calls of MyRNN.forward made by the running cell so far
    \* ---- generation (cell 6)
    pretext,        \* the priming string
    gen_length,     \* number of characters to generate
    gidx,           \* idx: token input of the next iteration
    output,         \* the generated text so far
    zero_hidden,    \* the fresh-state flag of the loop
    gi,             \* iterations completed
    gpc,            \* "loop", "done" (output printed) or "error" (exception)
    prev,           \* outcome of the run before, when this run repeats its inputs
    \* ---- training (cell 5)
    batch_size,     \* DataLoader batch_size
    nepochs,        \* number of epochs
    epoch,          \* epochs completed
    batches,        \* the batches of window indices the DataLoader has yet to yield
    twin,           \* idx of the loop body: the windows of the current batch
    targets,        \* targets of the current batch
    running_loss,   \* sum of the batch losses of the current epoch
    n,              \* batches done in the current epoch
    losses,         \* per epoch <<sum of batch losses, number of batches>>
    checkpoint,     \* the file written by torch.save
    tpc,            \* "epoch", "batch", "done" (saved) or "error" (exception)
    \* ---- two generation loops run side by side (cells 4 and 6)
    shared,         \* TRUE: both loops call the one net; FALSE: each has its own
    hiddens2,       \* MyRNN.hiddens of the second instance
    owner,          \* per instance, the loop whose call stored its hiddens (0: none)
    streams         \* per loop: its idx, output, zero_hidden, i and position

codecVars   == <<text, toks, decoded, retoks, cpc>>
samplerVars == <<idx, size, res>>
netVars     == <<hiddens, w, training, call, ncalls>>
genVars     == <<pretext, gen_length, gidx, output, zero_hidden, gi, gpc, prev>>
trainVars   == <<batch_size, nepochs, epoch, batches, twin, targets,
                 running_loss, n, losses, checkpoint, tpc>>
streamVars  == <<shared, hiddens2, owner, streams>>
vars        == <<codecVars, samplerVars, netVars, genVars, trainVars,
                 streamVars>>

-----------------------------------------------------------------------------
(* Bounds *)
MaxText == 3        \* longest text handed to tokenize
MaxN    == 4        \* longest token sequence of the dataset
MaxW    == 4        \* largest window size
MaxWeight == 1      \* parameter values 0..MaxWeight
MaxPrimer == 2      \* longest priming string
MaxGen  == 3        \* largest gen_length
MaxCalls == 3       \* calls of forward made by a free caller
MaxSteps == 1       \* longest input sequence of a free caller
MaxCorpus == 4      \* longest token sequence of the training corpus
MaxTrainW == 3      \* largest window size in training
MaxBatch == 2       \* largest batch_size
MaxEpochs == 2      \* largest nepochs

-----------------------------------------------------------------------------
(* Generic helpers *)
Range(s) == {s[i] : i \in DOMAIN s}

SeqsUpTo(S, m) == UNION {[1..k -> S] : k \in 0..m}

RECURSIVE Flatten(_)
Flatten(ss) == IF ss = <<>> THEN <<>> ELSE Head(ss) \o Flatten(Tail(ss))

\* Python / torch slice x[start:stop] of a sequence (0-based, step 1):
\* negative bounds count from the end, bounds are clamped to [0, len],
\* an empty range gives the empty sequence.  Never raises.
PySlice(x, start, stop) ==
    LET len == Len(x)
        s0 == IF start < 0 THEN start + len ELSE start
        e0 == IF stop  < 0 THEN stop  + len ELSE stop
        s  == IF s0 < 0 THEN 0 ELSE IF s0 > len THEN len ELSE s0
        e  == IF e0 < 0 THEN 0 ELSE IF e0 > len THEN len ELSE e0
    IN  IF e <= s THEN <<>> ELSE [k \in 1..(e - s) |-> x[s + k]]

-----------------------------------------------------------------------------
(* Cell 2: vocabulary, tokenize, onehot *)

chars == << "a","b","c","d","e","f","g","h","i","j","k","l","m",
            "n","o","p","q","r","s","t","u","v","w","x","y","z",
            ".", " " >>

input_size == Len(chars)

\* dict((c, i) for i, c in enumerate(chars))
char_to_int == [c \in Range(chars) |->
                   CHOOSE i \in 0..(Len(chars) - 1) : chars[i + 1] = c]

\* dict((i, c) for i, c in enumerate(chars))
int_to_char == [i \in 0..(Len(chars) - 1) |-> chars[i + 1]]

\* d.get(k, default)
dict_get(d, k, default) == IF k \in DOMAIN d THEN d[k] ELSE default

\* Characters the model hands to tokenize: vocabulary characters, upper
\* case letters, characters outside the vocabulary, and "I_dot" (U+0130),
\* whose lower case is the two characters "i" + "dot_above" (U+0307).
InputChars == {"a", ".", " ", "B", "1", "I_dot"}

\* str.lower() of one character
lower_char(c) ==
    CASE c = "B"     -> << "b" >>
      [] c = "I_dot" -> << "i", "dot_above" >>
      [] OTHER       -> << c >>

\* str.lower()
lower(data) == Flatten([i \in 1..Len(data) |-> lower_char(data[i])])

\* tokenize without data.lower()
tokenize_nolower(data) ==
    LET raw == [i \in 1..Len(data) |-> dict_get(char_to_int, data[i], -1)]
    IN  SelectSeq(raw, LAMBDA t : t # -1)

tokenize(data) ==
    LET d   == lower(data)
        raw == [i \in 1..Len(d) |-> dict_get(char_to_int, d[i], -1)]
    IN  SelectSeq(raw, LAMBDA t : t # -1)

\* one row of torch.eye(input_size)
eye_row(r, m) == [k \in 0..(m - 1) |-> IF k = r THEN 1 ELSE 0]

\* torch.eye(input_size)[idx] for a 1-d index tensor
onehot(ix, m) == [i \in 1..Len(ix) |-> eye_row(ix[i], m)]

\* int_to_char[k]: a dict lookup, KeyError for a key that is not present
Lookup(k) == IF k \in DOMAIN int_to_char
             THEN [kind |-> "value", val |-> int_to_char[k]]
             ELSE [kind |-> "KeyError", val |-> <<>>]

-----------------------------------------------------------------------------
(* Codec round trip: tokenize, decode token by token, tokenize again *)

NoRes     == [op |-> "none", arg |-> 0, kind |-> "none", val |-> <<>>]
NoSampler == idx = <<>> /\ size = 1 /\ res = NoRes
NoCodec   == text = <<>> /\ toks = <<>> /\ decoded = <<>> /\ retoks = <<>>
             /\ cpc = "off"
NoCall    == [kind |-> "none", zh |-> TRUE, x |-> <<>>, h0 |-> <<>>,
              output |-> <<>>]
\* an __init__ that also stores a zero state for a batch of one
Unset_zeros == [set |-> TRUE, h |-> << <<>> >>]

Unset     == [set |-> FALSE, h |-> <<>>]
NoNet     == hiddens = Unset /\ w = 0 /\ training = TRUE /\ call = NoCall
             /\ ncalls = 0
NoPrev    == [gpc |-> "none", output |-> <<>>]
NoGen     == pretext = <<>> /\ gen_length = 0 /\ gidx = <<>> /\ output = <<>>
             /\ zero_hidden = TRUE /\ gi = 0 /\ gpc = "off"
             /\ prev = NoPrev
NoFile    == [exists |-> FALSE, state_dict |-> 0, losses |-> <<>>]
NoTrain   == batch_size = 1 /\ nepochs = 0 /\ epoch = 0 /\ batches = <<>>
             /\ twin = <<>> /\ targets = <<>> /\ running_loss = 0 /\ n = 0
             /\ losses = <<>> /\ checkpoint = NoFile /\ tpc = "off"
NoStreams == shared = TRUE /\ hiddens2 = Unset /\ owner = <<0, 0>>
             /\ streams = <<>>

InitCodec ==
    /\ text \in SeqsUpTo(InputChars, MaxText)
    /\ toks = <<>> /\ decoded = <<>> /\ retoks = <<>>
    /\ cpc = "start"
    /\ NoSampler /\ NoNet /\ NoGen /\ NoTrain /\ NoStreams

\* idx = tokenize(data); an exception would leave the caller without a value
Tokenize ==
    /\ cpc = "start"
    /\ toks' = tokenize(text)
    /\ cpc' = "tokenized"
    /\ UNCHANGED <<text, decoded, retoks, samplerVars, netVars, genVars, streamVars, trainVars>>

\* int_to_char[token] for every token, in order; the first KeyError ends it
DecodeAll ==
    /\ cpc = "tokenized"
    /\ IF \A i \in 1..Len(toks) : Lookup(toks[i]).kind = "value"
       THEN /\ decoded' = [i \in 1..Len(toks) |-> Lookup(toks[i]).val]
            /\ cpc' = "decoded"
       ELSE /\ decoded' = decoded
            /\ cpc' = "error"
    /\ UNCHANGED <<text, toks, retoks, samplerVars, netVars, genVars, streamVars, trainVars>>

Retokenize ==
    /\ cpc = "decoded"
    /\ retoks' = tokenize(decoded)
    /\ cpc' = "done"
    /\ UNCHANGED <<text, toks, decoded, samplerVars, netVars, genVars, streamVars, trainVars>>

NextCodec == Tokenize \/ DecodeAll \/ Retokenize

SpecCodec == InitCodec /\ [][NextCodec]_vars

\* the lowercased text with the characters outside the vocabulary removed
Normalized(t) == SelectSeq(lower(t), LAMBDA c : c \in Range(chars))

\* C8: tokenize never raises and returns, in order, the index of each
\* vocabulary character of the lowercased text, omitting all others;
\* decoding the tokens one by one gives exactly the lowercased text without
\* its out-of-vocabulary characters, and tokenizing that again gives the
\* same tokens.
C8_CodecRoundTrip ==
    /\ cpc # "error"
    /\ cpc \in {"tokenized", "decoded", "done"} =>
          /\ Len(toks) = Len(Normalized(text))
          /\ \A i \in 1..Len(toks) :
                /\ toks[i] \in 0..(input_size - 1)
                /\ chars[toks[i] + 1] = Normalized(text)[i]
    /\ cpc \in {"decoded", "done"} => decoded = Normalized(text)
    /\ cpc = "done" => retoks = toks

\* a text with an upper-case letter, a character outside the vocabulary and
\* a character whose lower case is two characters went through the round trip
C8_Witness ==
    /\ cpc = "done"
    /\ text = << "I_dot", "1", "B" >>
    /\ toks = << 8, 1 >>
    /\ decoded = << "i", "b" >>

-----------------------------------------------------------------------------
(* Cell 3: the dataset of fixed-size windows *)

\* characters of the corpus file the model draws from: their tokens are
\* 0, 1, 2, and "1" is dropped by tokenize
CorpusChars == {"a", "B", "c", "1"}

\* the corpus of the scenario "window 4 over [0,1,0,1,2,1,0]"
ExampleCorpus == << "a", "b", "a", "B", "c", "b", "a" >>
ExampleTokens == << 0, 1, 0, 1, 2, 1, 0 >>

\* Alice.__init__: self.idx = tokenize(data); self.size = size
Corpora == {tokenize(d) : d \in SeqsUpTo(CorpusChars, MaxN) \cup {ExampleCorpus}}

\* __len__ that counts one window less
Alice_len_less == Len(idx) - size - 1

\* Alice.__len__
Alice_len == Len(idx) - size

\* __getitem__ whose slice ends one token early
Alice_getitem_short(index) == PySlice(idx, index, index + size - 1)

\* Alice.__getitem__: a slice of the token tensor, never an error
Alice_getitem(index) == PySlice(idx, index, index + size)

\* the indices a DataLoader draws from: range(len(dataset))
Indices == 0..(Alice_len - 1)

\* arguments of a direct lookup, in range and out of range on both sides
GetArgs    == (0 - (MaxN + MaxW + 1))..(MaxN + MaxW + 1)
DecodeArgs == (0 - 2)..(input_size + 1)

InitSampler ==
    /\ idx \in Corpora
    /\ size \in 1..MaxW
    /\ res = NoRes
    /\ NoCodec /\ NoNet /\ NoGen /\ NoTrain /\ NoStreams

\* len(dataset) as seen by __len__
Length ==
    /\ res' = [op |-> "len", arg |-> 0, kind |-> "value", val |-> Alice_len]
    /\ UNCHANGED <<idx, size, codecVars, netVars, genVars, streamVars, trainVars>>

\* dataset[i]
GetItem ==
    \E i \in GetArgs :
        /\ res' = [op |-> "get", arg |-> i, kind |-> "value",
                   val |-> Alice_getitem(i)]
        /\ UNCHANGED <<idx, size, codecVars, netVars, genVars, streamVars, trainVars>>

\* int_to_char[k]
Decode ==
    \E k \in DecodeArgs :
        /\ res' = [op |-> "decode", arg |-> k,
                   kind |-> Lookup(k).kind, val |-> Lookup(k).val]
        /\ UNCHANGED <<idx, size, codecVars, netVars, genVars, streamVars, trainVars>>

NextSampler == Length \/ GetItem \/ Decode

SpecSampler == InitSampler /\ [][NextSampler]_vars

\* tokens[s : s+W] when the window fits: the W tokens from offset s on
Window(s) == [k \in 1..size |-> idx[s + k]]

\* C5: length() is N - W, get(i) for i in [0, N-W) is the W tokens from
\* offset i on, window i+1 is window i shifted by one token, and window 4
\* over [0,1,0,1,2,1,0] gives exactly [0,1,0,1], [1,0,1,2], [0,1,2,1].
C5_Windows ==
    /\ res.op = "len" => res.val = Len(idx) - size
    /\ (res.op = "get" /\ res.arg >= 0 /\ res.arg < Len(idx) - size) =>
          /\ res.kind = "value"
          /\ Len(res.val) = size
          /\ \A k \in 1..size : res.val[k] = idx[res.arg + k]
    /\ \A i \in 0..(Len(idx) - size - 1) : Alice_getitem(i) = Window(i)
    /\ \A i \in 0..(Len(idx) - size - 2) :
          \A k \in 1..(size - 1) :
              Alice_getitem(i + 1)[k] = Alice_getitem(i)[k + 1]
    /\ (idx = ExampleTokens /\ size = 4) =>
          /\ Alice_len = 3
          /\ [i \in 1..3 |-> Alice_getitem(i - 1)] =
                << <<0,1,0,1>>, <<1,0,1,2>>, <<0,1,2,1>> >>

\* the last exposed window of the scenario has been fetched
C5_Witness ==
    /\ idx = ExampleTokens /\ size = 4
    /\ res.op = "get" /\ res.arg = 2 /\ res.val = <<0,1,2,1>>

\* C6 as stated: every offset at which a full window fits (s + W <= N) is
\* returned by exactly one index below length(), and every token lies in an
\* exposed window.
C6_EveryFittingOffset ==
    /\ \A s \in 0..(Len(idx) - size) :
          Cardinality({i \in Indices : Alice_getitem(i) = Window(s)}) = 1
    /\ \A p \in 1..Len(idx) : \E i \in Indices : p \in (i + 1)..(i + size)

\* C6 amended: the exposed offsets are those with s + W < N: each is its
\* own index and get(s) is the window at s; the last fitting offset N - W
\* is not an index, so with N > W every token but the last lies in an
\* exposed window and the last token lies in none.
C6_ExposedOffsets ==
    /\ \A s \in 0..(Len(idx) - size - 1) :
          /\ s \in Indices
          /\ Alice_getitem(s) = Window(s)
    /\ \A i \in Indices : i + size < Len(idx)
    /\ Len(idx) >= size => (Len(idx) - size) \notin Indices
    /\ Len(idx) > size =>
          \A p \in 1..(Len(idx) - 1) :
              \E i \in Indices : p \in (i + 1)..(i + size)
    /\ \A i \in Indices : Len(idx) \notin (i + 1)..(i + size)
    /\ res.op = "len" => Cardinality(Indices) =
                            (IF res.val > 0 THEN res.val ELSE 0)

\* length() was taken on a dataset with several windows of several tokens
C6_Witness ==
    /\ res.op = "len" /\ res.val = 2
    /\ size = 2 /\ Len(idx) = 4

\* C7 as stated: a lookup outside the valid range ends in an error and
\* returns no value.
C7_FailFast ==
    /\ (res.op = "get" /\ res.arg \notin 0..(Len(idx) - size - 1)) =>
          res.kind # "value"
    /\ (res.op = "decode" /\ res.arg \notin 0..(input_size - 1)) =>
          res.kind # "value"

-----------------------------------------------------------------------------
(* Cell 4: the network.                                                    *)
(*                                                                         *)
(* Abstraction of the numbers: the state of the LSTM after consuming the   *)
(* tokens t1..tk from the all-zero state is the sequence <<t1..tk>> (the   *)
(* zero state is <<>>); a state of a batch is one such sequence per batch  *)
(* element.  The parameters are one number w; Predict(w, h) is the index   *)
(* with the largest logit when the LSTM output is h.  w = 0 is a network   *)
(* that always predicts index 0.                                           *)

Weights == 0..MaxWeight

RECURSIVE SumSeq(_)
SumSeq(q) == IF q = <<>> THEN 0 ELSE Head(q) + SumSeq(Tail(q))

Predict(wt, h) == (wt * (SumSeq(h) + Len(h))) % input_size

\* the coordinate of a one-hot vector that is 1
HotIndex(v) == CHOOSE k \in DOMAIN v : v[k] = 1

\* the tokens of a sequence of one-hot vectors
HotTokens(x) == [t \in 1..Len(x) |-> HotIndex(x[t])]

\* torch.zeros(num_layers, batch, hidden_size): lstm's default initial state
ZeroState(B) == [b \in 1..B |-> <<>>]

\* nn.LSTM(batch_first=True)(input, h0): output per time step, final state
lstm_output(x, h0) ==
    [b \in 1..Len(x) |->
        [t \in 1..Len(x[b]) |-> h0[b] \o SubSeq(HotTokens(x[b]), 1, t)]]

lstm_final(x, h0) == [b \in 1..Len(x) |-> h0[b] \o HotTokens(x[b])]

\* nn.Dropout(0.2) on one LSTM output followed by nn.Linear: the logits of
\* one time step.  In evaluation mode dropout is the identity (noise = 0);
\* in training mode the random mask moves the logits (noise).
linear(wt, h, noise) ==
    [k \in 0..(input_size - 1) |->
        IF k = (Predict(wt, h) + noise) % input_size THEN 1 ELSE 0]

Noises == IF training THEN {0, 1} ELSE {0}

\* torch.max(outputs, 2) on one time step: the first index of the maximum
ArgMax(v) == CHOOSE k \in DOMAIN v :
                /\ \A j \in DOMAIN v : v[j] <= v[k]
                /\ \A j \in DOMAIN v : (j < k) => v[j] < v[k]

\* forward that never passes the stored state to the LSTM
initial_state_zero(x, zh) == ZeroState(Len(x))

\* the initial state MyRNN.forward hands to the LSTM
initial_state(x, zh) == IF zh THEN ZeroState(Len(x)) ELSE hiddens.h

\* MyRNN.forward(input, zero_hidden): the set of possible outcomes.
\*   - continued mode before self.hiddens exists: AttributeError
\*   - continued mode with a stored state of another batch size: RuntimeError
\*   - an input without time steps: depending on the torch build the LSTM
\*     raises, or returns no output step and its initial state as final state
\*   - otherwise the final state is stored and the logits are returned
forward(x, zh) ==
    LET h0 == initial_state(x, zh)
        T  == IF Len(x) = 0 THEN 0 ELSE Len(x[1])
        failed(k) == [kind |-> k, zh |-> zh, x |-> x, h0 |-> <<>>,
                      output |-> <<>>, hiddens |-> hiddens]
        done(z) == [kind |-> "ok", zh |-> zh, x |-> x, h0 |-> h0,
                    output |-> [b \in 1..Len(x) |->
                                  [t \in 1..T |->
                                     linear(w, lstm_output(x, h0)[b][t], z)]],
                    hiddens |-> [set |-> TRUE, h |-> lstm_final(x, h0)]]
    IN  IF ~zh /\ ~hiddens.set THEN {failed("AttributeError")}
        ELSE IF ~zh /\ Len(hiddens.h) # Len(x) THEN {failed("RuntimeError")}
        ELSE IF T = 0 THEN {failed("RuntimeError"), done(0)}
        ELSE {done(z) : z \in Noises}

\* the record of a call kept in the variable call
CallOf(o) == [kind |-> o.kind, zh |-> o.zh, x |-> o.x, h0 |-> o.h0,
              output |-> o.output]

-----------------------------------------------------------------------------
(* Cell 6: generation *)

\* a loop that starts in continued mode
first_zero_hidden_off == FALSE

\* zero_hidden = True before the loop
first_zero_hidden == TRUE

\* a loop that never clears the flag
next_zero_hidden_stuck == TRUE

\* zero_hidden = False at the end of an iteration
next_zero_hidden == FALSE

\* a loop that feeds the whole sequence so far back in
next_idx_append(token) == gidx \o << token >>

\* idx = torch.tensor([token]) at the end of an iteration
next_idx(token) == << token >>

\* priming strings: texts of an upper-case letter and a character outside
\* the vocabulary, and the string "a"
PrimerChars == {"B", "1"}
Primers     == SeqsUpTo(PrimerChars, MaxPrimer) \cup { << "a" >> }

\* states a net can be left with by the training calls of cell 5:
\* one history of W-1 tokens per window of the last batch
TrainLeftovers == { << <<0>> >>, << <<0, 1>>, <<1, 0>> >> }

\* the cell up to the loop: load the parameters, tokenize the priming
\* string, output = pretext, zero_hidden = True, net.eval()
GenBegin(p, g) ==
    /\ pretext' = p
    /\ gen_length' = g
    /\ gidx' = tokenize(p)
    /\ output' = p
    /\ zero_hidden' = first_zero_hidden
    /\ training' = FALSE
    /\ gi' = 0
    /\ gpc' = "loop"

InitGen ==
    /\ w \in Weights
    /\ hiddens \in {Unset} \cup {[set |-> TRUE, h |-> h] : h \in TrainLeftovers}
    /\ call = NoCall /\ ncalls = 0
    /\ pretext \in Primers
    /\ gen_length \in 0..MaxGen
    /\ gidx = tokenize(pretext)
    /\ output = pretext
    /\ zero_hidden = first_zero_hidden
    /\ training = FALSE
    /\ gi = 0 /\ gpc = "loop" /\ prev = NoPrev
    /\ NoCodec /\ NoSampler /\ NoTrain /\ NoStreams

\* one iteration of the loop body
GenStep ==
    /\ gpc = "loop" /\ gi < gen_length
    /\ LET inputs == << onehot(gidx, input_size) >>
       IN  \E o \in forward(inputs, zero_hidden) :
             /\ hiddens' = o.hiddens
             /\ call' = CallOf(o)
             /\ ncalls' = ncalls + 1
             /\ IF o.kind = "ok" /\ Len(o.output[1]) > 0
                THEN LET predicted == [t \in 1..Len(o.output[1]) |->
                                          ArgMax(o.output[1][t])]
                         token == predicted[Len(predicted)]
                     IN  /\ output' = output \o << int_to_char[token] >>
                         /\ gidx' = next_idx(token)
                         /\ zero_hidden' = next_zero_hidden
                         /\ gi' = gi + 1
                         /\ gpc' = gpc
                ELSE \* exception in forward, or predicted[0,-1] on no step
                     /\ gpc' = "error"
                     /\ UNCHANGED <<output, gidx, zero_hidden, gi>>
    /\ UNCHANGED <<pretext, gen_length, prev, w, training,
                   codecVars, samplerVars, trainVars, streamVars>>

\* the loop is over: print(output)
GenDone ==
    /\ gpc = "loop" /\ gi = gen_length
    /\ gpc' = "done"
    /\ UNCHANGED <<pretext, gen_length, gidx, output, zero_hidden, gi,
                   prev, netVars, codecVars, samplerVars, trainVars, streamVars>>

\* the cell is run again in the same session, on the same net, with the
\* same or another priming string and gen_length
GenAgain ==
    /\ gpc \in {"done", "error"}
    /\ \E p \in Primers, g \in 0..MaxGen :
          /\ GenBegin(p, g)
          /\ prev' = IF p = pretext /\ g = gen_length
                     THEN [gpc |-> gpc, output |-> output]
                     ELSE NoPrev
    /\ ncalls' = 0
    /\ UNCHANGED <<hiddens, w, call, codecVars, samplerVars, trainVars, streamVars>>

NextGen == GenStep \/ GenDone \/ GenAgain

SpecGen == InitGen /\ [][NextGen]_vars

\* the token selected from the logits of a call: predicted[0,-1]
Selected(c) == ArgMax(c.output[1][Len(c.output[1])])

\* C1: the network is called in fresh mode on the first iteration of a run
\* only and in continued mode on every later one; the first input is the
\* whole token sequence of the priming string, every later input is the one
\* token the preceding iteration selected; the flag, once false, stays
\* false for the rest of the run.
C1_FreshOnlyFirst ==
    [][ /\ (ncalls' = ncalls + 1) =>
              /\ call'.zh = (gi = 0)
              /\ call'.x = << onehot(IF gi = 0 THEN tokenize(pretext)
                                     ELSE << Selected(call) >>, input_size) >>
        /\ (gi' = gi + 1) => ~zero_hidden'
        /\ (~zero_hidden /\ gpc = "loop") => ~zero_hidden'
      ]_vars

\* a run with a two-token primer has made a fresh call and two continued ones
C1_Witness ==
    /\ gpc = "done" /\ gi = 3 /\ ncalls = 3
    /\ Len(tokenize(pretext)) = 2
    /\ ~call.zh /\ ~zero_hidden
    /\ Len(call.x[1]) = 1

\* the tokens the first k iterations select when every call continues from
\* the state of the one before: the primer, then one token at a time
RECURSIVE GenTokens(_, _, _)
GenTokens(wt, primer, k) ==
    IF k = 0 THEN <<>>
    ELSE LET before == GenTokens(wt, primer, k - 1)
         IN  before \o << Predict(wt, primer \o before) >>

DecodeTokens(ts) == [i \in 1..Len(ts) |-> int_to_char[ts[i]]]

\* what C2 says of the runs that do not end in an exception
C2_Result ==
    /\ gi <= gen_length
    /\ gpc = "done" => gi = gen_length
    /\ gpc \in {"loop", "done"} =>
          /\ Len(output) = Len(pretext) + gi
          /\ SubSeq(output, 1, Len(pretext)) = pretext
          /\ gi >= 1 => /\ call.kind = "ok"
                        /\ output[Len(output)] = int_to_char[Selected(call)]
          /\ output = pretext \o
                DecodeTokens(GenTokens(w, tokenize(pretext), gi))
    /\ (gpc = "done" /\ pretext = << "a" >> /\ gen_length = 3 /\ w = 0) =>
          output = << "a", "a", "a", "a" >>

\* C2 as stated: for any priming string and any gen_length the run ends
\* after gen_length iterations and returns the priming string verbatim
\* followed by gen_length decoded characters, the k-th being the argmax of
\* the last time step of the k-th call.
C2_AnyPrimer ==
    /\ gpc # "error"
    /\ C2_Result

\* C2 amended: the same, for a priming string with at least one vocabulary
\* character after lower-casing, or gen_length = 0; with a priming string
\* that tokenizes to nothing and gen_length >= 1 the first iteration raises
\* and nothing is returned.
C2_TokenizablePrimer ==
    /\ (tokenize(pretext) # <<>> \/ gen_length = 0) => gpc # "error"
    /\ gpc = "error" => (gi = 0 /\ output = pretext)
    /\ (gpc = "done" /\ gen_length >= 1) => tokenize(pretext) # <<>>
    /\ C2_Result

\* a run of three iterations whose priming string has an upper-case letter
\* and a character outside the vocabulary, both kept in the result
C2_Witness ==
    /\ gpc = "done" /\ gen_length = 3 /\ w = 1
    /\ pretext = << "B", "1" >>
    /\ output = << "B", "1", "c", "f", "l" >>
    /\ Selected(call) = 11

\* C4: in evaluation mode with unchanged parameters, a run with the priming
\* string and gen_length of the run before it returns the same output,
\* whatever state the net was left with.
C4_RepeatableRuns ==
    (prev.gpc # "none" /\ ~training) =>
        /\ (gpc = "done" /\ prev.gpc = "done") => output = prev.output
        /\ gpc = "done" => prev.gpc = "done"
        /\ (gpc = "loop" /\ prev.gpc = "done") =>
              output = SubSeq(prev.output, 1, Len(output))

\* the second of two equal runs is over; the first one left a state of
\* three consumed tokens in the net
C4_Witness ==
    /\ gpc = "done" /\ prev.gpc = "done"
    /\ pretext = << "B" >> /\ gen_length = 3 /\ w = 1
    /\ output = prev.output
    /\ Len(output) = 4

-----------------------------------------------------------------------------
(* Cell 4 on its own: forward called by any caller, in any mode *)

\* inputs of a free caller: one-hot batches of one sequence over two
\* tokens, and batches of two sequences of the same token
NetInputs ==
    UNION { { << onehot(q, input_size) >> : q \in [1..T -> {0, 1}] }
            \cup { [b \in 1..2 |-> onehot([t \in 1..T |-> 1], input_size)] } :
            T \in 0..MaxSteps }

InitNet ==
    /\ hiddens = Unset
    /\ w \in Weights
    /\ training \in BOOLEAN
    /\ call = NoCall /\ ncalls = 0
    /\ NoCodec /\ NoSampler /\ NoGen /\ NoTrain /\ NoStreams

\* net(input, zero_hidden)
NetCall ==
    /\ ncalls < MaxCalls
    /\ \E x \in NetInputs, zh \in BOOLEAN :
         \E o \in forward(x, zh) :
            /\ hiddens' = o.hiddens
            /\ call' = CallOf(o)
            /\ ncalls' = ncalls + 1
    /\ UNCHANGED <<w, training, codecVars, samplerVars, genVars, streamVars, trainVars>>

\* net.train()
NetTrain ==
    /\ training' = TRUE
    /\ UNCHANGED <<hiddens, w, call, ncalls, codecVars, samplerVars, genVars, streamVars,
                   trainVars>>

\* net.eval()
NetEval ==
    /\ training' = FALSE
    /\ UNCHANGED <<hiddens, w, call, ncalls, codecVars, samplerVars, genVars, streamVars,
                   trainVars>>

NextNet == NetCall \/ NetTrain \/ NetEval

SpecNet == InitNet /\ [][NextNet]_vars

\* C3: after a call that returns, in either mode, the stored state is the
\* final state of that call: the state the call started from followed by
\* the tokens of its input; a continued call starts from the state stored
\* before it, a fresh call from the all-zero state whatever is stored.
C3_StoredState ==
    [][ (ncalls' = ncalls + 1 /\ call'.kind = "ok") =>
          LET B == Len(call'.x)
              start == IF call'.zh THEN [b \in 1..B |-> <<>>] ELSE hiddens.h
          IN  /\ ~call'.zh => hiddens.set
              /\ call'.h0 = start
              /\ hiddens'.set
              /\ hiddens'.h = [b \in 1..B |->
                                  start[b] \o HotTokens(call'.x[b])]
      ]_vars

\* a fresh call, then two continued calls on the state stored before them
C3_Witness ==
    /\ ncalls = 3 /\ call.kind = "ok" /\ ~call.zh
    /\ call.h0 = << <<1, 0>> >>
    /\ hiddens = [set |-> TRUE, h |-> << <<1, 0, 1>> >>]

-----------------------------------------------------------------------------
(* Cell 5: training *)

\* the corpus of a training run: texts of lower- and upper-case letters
TrainCorpora == {tokenize(d) : d \in SeqsUpTo({"a", "B"}, MaxCorpus)}

\* all orders of a finite set of indices: the shuffle of the DataLoader
Shuffles(S) ==
    {p \in [1..Cardinality(S) -> S] : \A i \in S : \E k \in DOMAIN p : p[k] = i}

\* the batches of a shuffled index list: batch_size each, the last one short
Chunks(p, bs) ==
    [c \in 1..((Len(p) + bs - 1) \div bs) |->
        SubSeq(p, (c - 1) * bs + 1,
               IF c * bs < Len(p) THEN c * bs ELSE Len(p))]

\* a training call that is fresh only while nothing is stored
train_zero_hidden_once == ~hiddens.set

\* net(inputs): zero_hidden is left at its default
train_zero_hidden == TRUE

\* inputs[:, :-1, :] for one window of the batch
teacher_inputs(oh) == PySlice(oh, 0, 0 - 1)

\* targets that are not advanced by one time step
teacher_targets_unshifted(win) == PySlice(win, 0, 0 - 1)

\* idx[:, 1:] for one window of the batch
teacher_targets(win) == PySlice(win, 1, Len(win))

\* a loss that is not a number (the mean over no time step)
NaN == 0 - 1

\* nn.CrossEntropyLoss, abstracted to the number of time steps whose logit
\* at the target index is not the largest one
loss_fn(outs, tg) ==
    IF \A b \in DOMAIN outs : Len(outs[b]) = 0 THEN NaN
    ELSE SumSeq([b \in DOMAIN outs |->
                    SumSeq([t \in DOMAIN outs[b] |-> 1 - outs[b][t][tg[b][t]]])])

\* loss.backward(); optimizer.step(): the parameters after the update, a
\* function of the parameters before it and of the loss
optimizer_step(wt, loss) == (wt + loss + 1) % (MaxWeight + 1)

\* float addition
AddLoss(a, b) == IF a = NaN \/ b = NaN THEN NaN ELSE a + b

InitTrain ==
    /\ idx \in TrainCorpora
    /\ size \in 1..MaxTrainW
    /\ Len(idx) >= size
    /\ res = NoRes
    /\ batch_size \in 1..MaxBatch
    /\ nepochs \in 1..MaxEpochs
    /\ hiddens = Unset
    /\ w \in Weights
    /\ training = TRUE
    /\ call = NoCall /\ ncalls = 0
    /\ epoch = 0 /\ batches = <<>> /\ twin = <<>> /\ targets = <<>>
    /\ running_loss = 0 /\ n = 0
    /\ losses = [e \in 1..nepochs |-> <<0, 1>>]
    /\ checkpoint = NoFile
    /\ tpc = "epoch"
    /\ NoCodec /\ NoGen /\ NoStreams

\* top of the epoch loop: running_loss = 0, n = 0, the DataLoader shuffles
EpochBegin ==
    /\ tpc = "epoch" /\ epoch < nepochs
    /\ running_loss' = 0
    /\ n' = 0
    /\ \E p \in Shuffles(Indices) : batches' = Chunks(p, batch_size)
    /\ tpc' = "batch"
    /\ UNCHANGED <<batch_size, nepochs, epoch, twin, targets, losses,
                   checkpoint, netVars, codecVars, samplerVars, genVars, streamVars>>

\* one batch: the body of the inner loop
TrainBatch ==
    /\ tpc = "batch" /\ batches # <<>>
    /\ LET bidx   == [b \in 1..Len(Head(batches)) |->
                         Alice_getitem(Head(batches)[b])]
           inputs == [b \in 1..Len(bidx) |->
                         teacher_inputs(onehot(bidx[b], input_size))]
           tg     == [b \in 1..Len(bidx) |-> teacher_targets(bidx[b])]
       IN  /\ twin' = bidx
           /\ targets' = tg
           /\ \E o \in forward(inputs, train_zero_hidden) :
                /\ hiddens' = o.hiddens
                /\ call' = CallOf(o)
                /\ ncalls' = ncalls + 1
                /\ IF o.kind = "ok"
                   THEN /\ w' = optimizer_step(w, loss_fn(o.output, tg))
                        /\ running_loss' =
                              AddLoss(running_loss, loss_fn(o.output, tg))
                        /\ n' = n + 1
                        /\ batches' = Tail(batches)
                        /\ tpc' = tpc
                   ELSE /\ tpc' = "error"
                        /\ UNCHANGED <<w, running_loss, n, batches>>
    /\ UNCHANGED <<batch_size, nepochs, epoch, losses, checkpoint, training,
                   codecVars, samplerVars, genVars, streamVars>>

\* after the last batch: losses[epoch] = running_loss / n
EpochEnd ==
    /\ tpc = "batch" /\ batches = <<>>
    /\ IF n = 0
       THEN /\ tpc' = "error"
            /\ UNCHANGED <<losses, epoch>>
       ELSE /\ losses' = [losses EXCEPT ![epoch + 1] = <<running_loss, n>>]
            /\ epoch' = epoch + 1
            /\ tpc' = "epoch"
    /\ UNCHANGED <<batch_size, nepochs, batches, twin, targets, running_loss,
                   n, checkpoint, netVars, codecVars, samplerVars, genVars, streamVars>>

\* torch.save indented into the epoch loop: a save after every epoch
save_due_every_epoch == tpc = "epoch" /\ epoch >= 1

\* torch.save comes after the epoch loop: it runs once range(nepochs) is
\* exhausted
save_due == tpc = "epoch" /\ epoch = nepochs

\* torch.save({"state_dict": ..., "losses": losses}, results_path)
Save ==
    /\ save_due
    /\ checkpoint' = [exists |-> TRUE, state_dict |-> w, losses |-> losses]
    /\ tpc' = "done"
    /\ UNCHANGED <<batch_size, nepochs, epoch, batches, twin, targets,
                   running_loss, n, losses, netVars, codecVars, samplerVars,
                   genVars, streamVars>>

NextTrain == EpochBegin \/ TrainBatch \/ EpochEnd \/ Save

SpecTrain == InitTrain /\ [][NextTrain]_vars

C10_TrainerFresh ==
    [][ (ncalls' = ncalls + 1) =>
          /\ call'.zh
          /\ call'.kind = "ok" =>
                /\ call'.h0 = [b \in 1..Len(call'.x) |-> <<>>]
                /\ (hiddens.set /\ \E b \in DOMAIN hiddens.h :
                                      hiddens.h[b] # <<>>)
                      => call'.h0 # hiddens.h
      ]_vars

\* the second epoch's call came after calls that had stored a state
C10_Witness ==
    /\ epoch = 1 /\ tpc = "batch" /\ ncalls >= 3
    /\ call.kind = "ok" /\ call.zh
    /\ hiddens.set /\ hiddens.h[1] # <<>>

\* the number of batches the DataLoader yields in one epoch
BatchesPerEpoch == (Cardinality(Indices) + batch_size - 1) \div batch_size

\* C11: the checkpoint is written once, after the last batch of the last
\* epoch: before that, and after an exception in any batch, no checkpoint
\* exists; its loss sequence has one entry per epoch, and the entry of
\* epoch e is the sum of the losses of all batches of epoch e over their
\* number.
C11_CheckpointAtEnd ==
    /\ [](checkpoint.exists =>
             /\ tpc = "done" /\ epoch = nepochs /\ batches = <<>>
             /\ Len(checkpoint.losses) = nepochs
             /\ checkpoint.losses = losses
             /\ checkpoint.state_dict = w)
    /\ [](tpc \in {"epoch", "batch", "error"} => checkpoint = NoFile)
    /\ [](\A e \in 1..epoch : losses[e][2] = BatchesPerEpoch)
    /\ [][ /\ (checkpoint' # checkpoint) =>
                 (~checkpoint.exists /\ checkpoint'.exists /\ epoch = nepochs)
           /\ (tpc = "epoch" /\ tpc' = "batch") =>
                 (running_loss' = 0 /\ n' = 0
                  /\ Len(batches') = BatchesPerEpoch)
           /\ (ncalls' = ncalls + 1 /\ call'.kind = "ok") =>
                 LET loss == loss_fn(call'.output, targets')
                 IN  /\ running_loss' =
                           (IF running_loss = NaN \/ loss = NaN THEN NaN
                            ELSE running_loss + loss)
                     /\ n' = n + 1
                     /\ Len(batches') = Len(batches) - 1
           /\ (epoch' # epoch) =>
                 /\ epoch' = epoch + 1
                 /\ batches = <<>> /\ n = BatchesPerEpoch
                 /\ losses'[epoch'] = <<running_loss, n>>
                 /\ \A e \in 1..nepochs : e # epoch' => losses'[e] = losses[e]
           /\ (epoch' = epoch) => losses' = losses
         ]_vars

\* a run of two epochs of two batches each has written its checkpoint
C11_Witness ==
    /\ tpc = "done" /\ checkpoint.exists
    /\ nepochs = 2 /\ size = 2 /\ batch_size = 1
    /\ Len(checkpoint.losses) = 2
    /\ checkpoint.losses[1][2] = 2 /\ checkpoint.losses[2][2] = 2
    /\ checkpoint.losses[1][1] # checkpoint.losses[2][1]

\* C13: an instance has no stored recurrent state until a forward call on
\* it has completed, so a continued call made before that ends in an
\* AttributeError, returns no output and stores nothing; once a call of
\* either mode has completed, the stored state stays and no continued call
\* misses it.
C13_NoStateBeforeFirstCall ==
    /\ [](ncalls = 0 => ~hiddens.set)
    /\ [][ (ncalls' = ncalls + 1) =>
             /\ (~hiddens.set /\ ~call'.zh) =>
                   /\ call'.kind = "AttributeError"
                   /\ call'.output = <<>>
                   /\ hiddens' = hiddens
             /\ (~hiddens.set /\ hiddens'.set) => call'.kind = "ok"
             /\ (call'.kind = "ok") => hiddens'.set
             /\ hiddens.set =>
                   (hiddens'.set /\ call'.kind # "AttributeError")
         ]_vars

\* the first call on the instance was a continued call and failed
C13_Witness ==
    /\ ncalls = 1 /\ ~call.zh /\ Len(call.x) = 1
    /\ call.kind = "AttributeError" /\ call.output = <<>>
    /\ hiddens = Unset

-----------------------------------------------------------------------------
(* Two generation loops whose calls interleave: on the one instance net, or
   each on an instance of its own with the same parameters *)

StreamIds == {1, 2}
other(s)  == 3 - s

\* the instance a loop calls net(inputs, zero_hidden) on
instance_of(s) == IF shared THEN 1 ELSE s

\* hiddens kept on the class: one attribute for all instances
instance_hiddens_of_class(k) == hiddens

\* self.hiddens of instance k
instance_hiddens(k) == IF k = 1 THEN hiddens ELSE hiddens2

\* MyRNN.forward with self = instance k: the outcomes of the call
forward_on(k, x, zh) ==
    LET self_hiddens == instance_hiddens(k)
        h0 == IF zh THEN ZeroState(Len(x)) ELSE self_hiddens.h
        T  == IF Len(x) = 0 THEN 0 ELSE Len(x[1])
        failed(e) == [kind |-> e, zh |-> zh, x |-> x, h0 |-> <<>>,
                      output |-> <<>>, hiddens |-> self_hiddens]
        done(z) == [kind |-> "ok", zh |-> zh, x |-> x, h0 |-> h0,
                    output |-> [b \in 1..Len(x) |->
                                  [t \in 1..T |->
                                     linear(w, lstm_output(x, h0)[b][t], z)]],
                    hiddens |-> [set |-> TRUE, h |-> lstm_final(x, h0)]]
    IN  IF ~zh /\ ~self_hiddens.set THEN {failed("AttributeError")}
        ELSE IF ~zh /\ Len(self_hiddens.h) # Len(x)
             THEN {failed("RuntimeError")}
        ELSE IF T = 0 THEN {failed("RuntimeError"), done(0)}
        ELSE {done(z) : z \in Noises}

\* a loop before its first iteration: the statements ahead of the for loop.
\* src is the loop whose call stored the state its last continued call
\* started from (0: no continued call yet), start the state its last call
\* started from, own the state its own call before that had stored, stored
\* the state its last call stored.
StreamBegin(p, g) ==
    [pretext |-> p, gen_length |-> g, idx |-> tokenize(p), output |-> p,
     zero_hidden |-> first_zero_hidden, i |-> 0, pc |-> "loop",
     src |-> 0, start |-> <<>>, own |-> Unset, stored |-> Unset]

\* the priming strings of the two loops: empty or one character
StreamPrimers == {p \in Primers : Len(p) <= 1}

InitStreams ==
    /\ shared \in BOOLEAN
    /\ w \in Weights
    /\ training = FALSE
    /\ hiddens = Unset /\ hiddens2 = Unset /\ owner = <<0, 0>>
    /\ call = NoCall /\ ncalls = 0
    /\ \E p1 \in StreamPrimers, p2 \in StreamPrimers, g \in 0..MaxGen :
          streams = << StreamBegin(p1, g), StreamBegin(p2, g) >>
    /\ NoCodec /\ NoSampler /\ NoGen /\ NoTrain

\* one iteration of the loop body of loop s
StreamStep(s) ==
    LET st == streams[s]
        k  == instance_of(s)
        inputs == << onehot(st.idx, input_size) >>
    IN  /\ st.pc = "loop" /\ st.i < st.gen_length
        /\ \E o \in forward_on(k, inputs, st.zero_hidden) :
             /\ hiddens'  = IF k = 1 THEN o.hiddens ELSE hiddens
             /\ hiddens2' = IF k = 2 THEN o.hiddens ELSE hiddens2
             /\ owner' = IF o.kind = "ok" THEN [owner EXCEPT ![k] = s]
                         ELSE owner
             /\ call' = CallOf(o)
             /\ ncalls' = ncalls + 1
             /\ IF o.kind = "ok" /\ Len(o.output[1]) > 0
                THEN LET predicted == [t \in 1..Len(o.output[1]) |->
                                          ArgMax(o.output[1][t])]
                         token == predicted[Len(predicted)]
                     IN  streams' = [streams EXCEPT ![s] =
                            [st EXCEPT
                               !.output = st.output \o << int_to_char[token] >>,
                               !.idx = next_idx(token),
                               !.zero_hidden = next_zero_hidden,
                               !.i = st.i + 1,
                               !.src = IF st.zero_hidden THEN st.src
                                       ELSE owner[k],
                               !.start = o.h0,
                               !.own = st.stored,
                               !.stored = o.hiddens]]
                ELSE \* exception in forward, or predicted[0,-1] on no step
                     streams' = [streams EXCEPT ![s] =
                            [st EXCEPT !.pc = "error"]]
        /\ UNCHANGED <<shared, w, training, codecVars, samplerVars, genVars,
                       trainVars>>

\* the loop of s is over: print(output)
StreamDone(s) ==
    /\ streams[s].pc = "loop" /\ streams[s].i = streams[s].gen_length
    /\ streams' = [streams EXCEPT ![s].pc = "done"]
    /\ UNCHANGED <<shared, hiddens2, owner, netVars, codecVars, samplerVars,
                   genVars, trainVars>>

NextStreams == \E s \in StreamIds : StreamStep(s) \/ StreamDone(s)

SpecStreams == InitStreams /\ [][NextStreams]_vars

\* C12: when each loop calls an instance of its own, every continued call
\* of a loop starts from the recurrent state that the loop's own previous
\* call stored, never from a state stored by a call of the other loop.
C12_OwnInstanceIsolated ==
    ~shared =>
       \A s \in StreamIds :
          LET st == streams[s]
          IN  /\ st.src \in {0, s}
              /\ owner[s] \in {0, s}
              /\ (st.src = s) => (st.own.set /\ st.start = st.own.h)

\* on the one instance, the last continued call of either loop started from
\* the state stored by a call of the other loop, which is not the state its
\* own previous call had stored
C12_Witness ==
    /\ shared
    /\ \A s \in StreamIds :
          LET st == streams[s]
          IN  /\ st.pc = "loop" /\ st.i >= 2
              /\ st.src = other(s)
              /\ st.own.set /\ st.start # st.own.h

=============================================================================
